---------------------------- MODULE Spec2Model ----------------------------
(***************************************************************************)
(* A model of hotlap-rs (src/src/main.rs): the terminal hotlap timer.      *)
(*                                                                         *)
(* The state is the state of main: the run flag, the start instant, the    *)
(* milestone list, the cursor, the time sampled at the top of the loop,    *)
(* the terminal's raw mode, and the reference file on disk.  One action    *)
(* per step of main: the startup, the top of the loop (sample and draw),   *)
(* and one handler per message that rx.recv() can return.                  *)
(*                                                                         *)
(* Times are in milliseconds.  A milestone's result (an f32 number of      *)
(* seconds in the program) is kept exactly, in thousandths of a second;    *)
(* the rounding of f32 arithmetic is not modelled.                         *)
(***************************************************************************)
EXTENDS Integers, Sequences, FiniteSets, TLC

VARIABLES
    pc,            \* where main is: "init", "draw", "recv", "exited", "failed", "panicked"
    err,           \* what ended main: the Err it returned or the panic it died of
    raw_mode,      \* the terminal is in raw mode
    now,           \* the monotonic clock (Instant::now()), in ms since the process began
    start_time,    \* Option<Instant>
    is_started,    \* bool
    milestones,    \* Vec<Milestone>
    current_idx,   \* usize
    current_time,  \* the Time sampled at the top of the current loop iteration
    event,         \* the message rx.recv() returned in this loop iteration
    file,          \* the content of ./target/debug/test.json
    boots,         \* how many times the program has been launched
    advances,      \* observer: the <space> presses handled since the run began
    producer,      \* the producer thread: where it is, and last_tick.elapsed() in ms
    channel        \* the messages sent on tx and not yet received on rx

\* The producer thread and its channel.
thread == <<producer, channel>>

vars == <<pc, err, raw_mode, now, start_time, is_started, milestones,
          current_idx, current_time, event, file, boots, advances, thread>>

---------------------------------------------------------------------------
(* Bounds of the model. *)

\* The longest milestone list a reference file holds at the first launch.
MaxMilestones == 2
\* The clock moves in steps of ClockStep ms, at most MaxClockSteps times per launch.
ClockStep == 700
MaxClockSteps == 1
\* The program is launched at most MaxBoots times on the same disk.
MaxBoots == 2
\* Inputs of the clock decomposition range over 0..MaxHours whole hours.
MaxHours == 49

---------------------------------------------------------------------------
(* Option<T>: None is the empty sequence, Some(x) the sequence of x alone. *)

None == <<>>
Some(x) == <<x>>
IsSome(o) == o # <<>>
Unwrap(o) == o[1]

\* struct Time { h, m, s, ms }
Time(hh, mm, ss, mss) == [h |-> hh, m |-> mm, s |-> ss, ms |-> mss]
ZeroTime == Time(0, 0, 0, 0)

\* struct Milestone { name, time, result }
Milestone(n, t, r) == [name |-> n, time |-> t, result |-> r]

---------------------------------------------------------------------------
(* parse_millis: a Duration, as whole milliseconds, to (h, m, s, ms). *)

\* A faulty variant: the hours not reduced modulo 24.
parse_millis_nowrap(duration) ==
    Time(duration \div (1000 * 60 * 60),
         (duration \div (1000 * 60)) % 60,
         (duration \div 1000) % 60,
         duration % 1000)

parse_millis(duration) ==
    Time((duration \div (1000 * 60 * 60)) % 24,
         (duration \div (1000 * 60)) % 60,
         (duration \div 1000) % 60,
         duration % 1000)

\* A faulty variant of the operator below: the time since the process began.
elapsed_since_boot(start, n) == n

\* Instant::elapsed: time never runs backwards on a monotonic clock.
elapsed(start, n) == IF n >= start THEN n - start ELSE 0

\* The f32 the <space> handler computes from a Time, in thousandths of a second:
\* (h*60*60 + m*60 + s) as f32 + ms as f32 / 100f32.
handler_seconds(t) == (t.h * 60 * 60 + t.m * 60 + t.s) * 1000 + t.ms * 10

\* result: Some(duration), the difference of the two.
handler_duration(measured, old) == handler_seconds(measured) - handler_seconds(old)

\* A faulty variant of the guard below: the save is never refused.
may_save_always(started) == TRUE

\* if !is_started { save_json(...)?; }
may_save(started) == ~started

\* A faulty variant of the test below: off by one.
has_next_off_by_one(idx, ms) == idx + 1 <= Len(ms)

\* current_idx + 1 < milestones.len()
has_next(idx, ms) == idx + 1 < Len(ms)

\* A faulty variant of the operator below: always the first entry.
replace_first(ms, idx, m) == [ms EXCEPT ![1] = m]

\* std::mem::replace(&mut milestones[current_idx], milestone): the entry at the
\* cursor is overwritten in place.  The vector counts from 0, the sequence from 1.
replace(ms, idx, m) == [ms EXCEPT ![idx + 1] = m]

\* A faulty variant of the operator below: the origin is never recorded.
started_at_none(n) == None

\* start_time = Some(Instant::now())
started_at(n) == Some(n)

\* let tick_rate = Duration::from_millis(2);
tick_rate == 2

\* last_tick.elapsed() >= tick_rate
tick_due(since) == since >= tick_rate

\* tick_rate.checked_sub(last_tick.elapsed()).unwrap_or_else(|| Duration::from_secs(0))
timeout(since) == IF since <= tick_rate THEN tick_rate - since ELSE 0

---------------------------------------------------------------------------
(* serde_json on Vec<Milestone>.  A text is a sequence of characters.  Only   *)
(* the compact form serde_json::to_string writes is read back: the keys in    *)
(* the order of the struct's fields, no white space.  Of the string escapes,  *)
(* those of the quote and of the backslash are modelled.  The numbers of the  *)
(* model's files are far inside the i32 range, so its check is left out.      *)

Digits == <<"0", "1", "2", "3", "4", "5", "6", "7", "8", "9">>
DigitChars == {Digits[i] : i \in 1..10}
DigitVal(c) == (CHOOSE i \in 1..10 : Digits[i] = c) - 1

RECURSIVE fmt_nat(_)
fmt_nat(n) == IF n < 10 THEN <<Digits[n + 1]>>
              ELSE fmt_nat(n \div 10) \o <<Digits[(n % 10) + 1]>>

fmt_i32(n) == IF n < 0 THEN <<"-">> \o fmt_nat(-n) ELSE fmt_nat(n)

\* The digits after the point: thousandths, without trailing zeros, at least one.
fmt_frac(k) ==
    LET d1 == k \div 100
        d2 == (k \div 10) % 10
        d3 == k % 10
    IN  IF d3 # 0 THEN <<Digits[d1 + 1], Digits[d2 + 1], Digits[d3 + 1]>>
        ELSE IF d2 # 0 THEN <<Digits[d1 + 1], Digits[d2 + 1]>>
        ELSE <<Digits[d1 + 1]>>

\* An f32 (in thousandths): sign, whole part, point, fraction ("6.0", "-0.3").
fmt_f32(v) ==
    LET a == IF v < 0 THEN -v ELSE v
    IN  (IF v < 0 THEN <<"-">> ELSE <<>>) \o fmt_nat(a \div 1000) \o <<".">>
            \o fmt_frac(a % 1000)

fmt_result(r) == IF IsSome(r) THEN fmt_f32(Unwrap(r)) ELSE <<"n", "u", "l", "l">>

\* A faulty variant of the escaping below: the characters as they are.
escape_none(str) == str

\* The content of a string literal: a backslash before a quote or a backslash.
RECURSIVE escape(_)
escape(str) ==
    IF str = <<>> THEN <<>>
    ELSE LET c == Head(str)
         IN  (IF c \in {"\"", "\\"} THEN <<"\\", c>> ELSE <<c>>) \o escape(Tail(str))

fmt_str(str) == <<"\"">> \o escape(str) \o <<"\"">>

T_NAME == <<"{", "\"", "n", "a", "m", "e", "\"", ":">>
T_TIME == <<",", "\"", "t", "i", "m", "e", "\"", ":">>
T_H == <<"{", "\"", "h", "\"", ":">>
T_M == <<",", "\"", "m", "\"", ":">>
T_S == <<",", "\"", "s", "\"", ":">>
T_MS == <<",", "\"", "m", "s", "\"", ":">>
T_RESULT == <<",", "\"", "r", "e", "s", "u", "l", "t", "\"", ":">>
T_NULL == <<"n", "u", "l", "l">>

fmt_time(t) ==
    T_H \o fmt_i32(t.h) \o T_M \o fmt_i32(t.m) \o T_S \o fmt_i32(t.s)
        \o T_MS \o fmt_i32(t.ms) \o <<"}">>

fmt_milestone(m) ==
    T_NAME \o fmt_str(m.name) \o T_TIME \o fmt_time(m.time)
        \o T_RESULT \o fmt_result(m.result) \o <<"}">>

RECURSIVE fmt_elements(_)
fmt_elements(ms) ==
    IF ms = <<>> THEN <<>>
    ELSE IF Len(ms) = 1 THEN fmt_milestone(ms[1])
    ELSE fmt_milestone(ms[1]) \o <<",">> \o fmt_elements(Tail(ms))

\* serde_json::to_string(milestones)
to_string(ms) == <<"[">> \o fmt_elements(ms) \o <<"]">>

\* The result of a parsing step: the value and the position after it, or a failure.
Fail == [ok |-> FALSE, val |-> <<>>, pos |-> 0]
Ok(v, p) == [ok |-> TRUE, val |-> v, pos |-> p]

at(txt, pos, lit) ==
    /\ pos + Len(lit) - 1 <= Len(txt)
    /\ SubSeq(txt, pos, pos + Len(lit) - 1) = lit

\* The digits from position i on: <<their value, how many>>.
RECURSIVE parse_digits(_, _, _, _)
parse_digits(txt, i, acc, n) ==
    IF i <= Len(txt) /\ txt[i] \in DigitChars
    THEN parse_digits(txt, i + 1, acc * 10 + DigitVal(txt[i]), n + 1)
    ELSE Ok(<<acc, n>>, i)

signed(neg, a) == IF neg THEN -a ELSE a

\* A number has digits, and no zero before them.
i32_value(txt, first, neg, d) ==
    IF d.val[2] = 0 THEN Fail
    ELSE IF d.val[2] > 1 /\ txt[first] = "0" THEN Fail
    ELSE Ok(signed(neg, d.val[1]), d.pos)

i32_from(txt, first, neg) == i32_value(txt, first, neg, parse_digits(txt, first, 0, 0))

parse_i32(txt, pos) ==
    IF at(txt, pos, <<"-">>) THEN i32_from(txt, pos + 1, TRUE)
    ELSE i32_from(txt, pos, FALSE)

\* The whole part w and the fraction f, in thousandths.
f32_value(neg, w, f) ==
    IF f.val[2] = 0 \/ f.val[2] > 3 THEN Fail
    ELSE Ok(signed(neg, w.val[1] * 1000 + f.val[1] * 10^(3 - f.val[2])), f.pos)

f32_whole(txt, first, neg, w) ==
    IF w.val[2] = 0 THEN Fail
    ELSE IF w.val[2] > 1 /\ txt[first] = "0" THEN Fail
    ELSE IF at(txt, w.pos, <<".">>)
         THEN f32_value(neg, w, parse_digits(txt, w.pos + 1, 0, 0))
    ELSE Ok(signed(neg, w.val[1] * 1000), w.pos)

f32_from(txt, first, neg) == f32_whole(txt, first, neg, parse_digits(txt, first, 0, 0))

parse_f32(txt, pos) ==
    IF at(txt, pos, <<"-">>) THEN f32_from(txt, pos + 1, TRUE)
    ELSE f32_from(txt, pos, FALSE)

some_of(r) == IF r.ok THEN Ok(Some(r.val), r.pos) ELSE Fail

\* Option<f32>: null, or a number.
parse_result(txt, pos) ==
    IF at(txt, pos, T_NULL) THEN Ok(None, pos + Len(T_NULL))
    ELSE some_of(parse_f32(txt, pos))

\* The characters of a string from position i on, up to the closing quote.
RECURSIVE parse_chars(_, _, _)
parse_chars(txt, i, acc) ==
    IF i > Len(txt) THEN Fail
    ELSE IF txt[i] = "\"" THEN Ok(acc, i + 1)
    ELSE IF txt[i] = "\\"
         THEN IF i + 1 <= Len(txt) /\ txt[i + 1] \in {"\"", "\\"}
              THEN parse_chars(txt, i + 2, Append(acc, txt[i + 1]))
              ELSE Fail
    ELSE parse_chars(txt, i + 1, Append(acc, txt[i]))

parse_str(txt, pos) ==
    IF at(txt, pos, <<"\"">>) THEN parse_chars(txt, pos + 1, <<>>) ELSE Fail

\* A number after the key `key`.
parse_field(txt, pos, key) ==
    IF at(txt, pos, key) THEN parse_i32(txt, pos + Len(key)) ELSE Fail

\* struct Time: the four fields one after the other, each read where the one
\* before it ended.
time_ms(txt, h, m, s, ms) ==
    IF ms.ok /\ at(txt, ms.pos, <<"}">>)
    THEN Ok(Time(h.val, m.val, s.val, ms.val), ms.pos + 1)
    ELSE Fail

time_s(txt, h, m, s) ==
    IF s.ok THEN time_ms(txt, h, m, s, parse_field(txt, s.pos, T_MS)) ELSE Fail

time_m(txt, h, m) ==
    IF m.ok THEN time_s(txt, h, m, parse_field(txt, m.pos, T_S)) ELSE Fail

time_h(txt, h) ==
    IF h.ok THEN time_m(txt, h, parse_field(txt, h.pos, T_M)) ELSE Fail

parse_time(txt, pos) == time_h(txt, parse_field(txt, pos, T_H))

\* struct Milestone: name, time, result.
milestone_result(txt, n, t, r) ==
    IF r.ok /\ at(txt, r.pos, <<"}">>)
    THEN Ok(Milestone(n.val, t.val, r.val), r.pos + 1)
    ELSE Fail

milestone_time(txt, n, t) ==
    IF t.ok /\ at(txt, t.pos, T_RESULT)
    THEN milestone_result(txt, n, t, parse_result(txt, t.pos + Len(T_RESULT)))
    ELSE Fail

milestone_name(txt, n) ==
    IF n.ok /\ at(txt, n.pos, T_TIME)
    THEN milestone_time(txt, n, parse_time(txt, n.pos + Len(T_TIME)))
    ELSE Fail

parse_milestone(txt, pos) ==
    IF at(txt, pos, T_NAME) THEN milestone_name(txt, parse_str(txt, pos + Len(T_NAME)))
    ELSE Fail

\* The elements of the array, up to its closing bracket.
RECURSIVE parse_elements(_, _, _)
elements_next(txt, acc, m) ==
    IF ~m.ok THEN Fail
    ELSE IF at(txt, m.pos, <<",">>)
         THEN parse_elements(txt, m.pos + 1, Append(acc, m.val))
    ELSE IF at(txt, m.pos, <<"]">>) THEN Ok(Append(acc, m.val), m.pos + 1)
    ELSE Fail

parse_elements(txt, pos, acc) == elements_next(txt, acc, parse_milestone(txt, pos))

\* Nothing may follow the array.
whole_text(txt, r) == IF r.ok /\ r.pos = Len(txt) + 1 THEN r ELSE Fail

\* serde_json::from_reader(reader): the whole text is one array.
from_reader(txt) ==
    whole_text(txt, IF at(txt, 1, <<"[", "]">>) THEN Ok(<<>>, 3)
                    ELSE IF at(txt, 1, <<"[">>) THEN parse_elements(txt, 2, <<>>)
                    ELSE Fail)

---------------------------------------------------------------------------
(* The files.  The disk holds one file the program uses: `file` is None    *)
(* when it is missing, Some(text) otherwise.                               *)

\* "./target/debug/test.json", the path of the startup load and of the save.
ReferencePath == "./target/debug/test.json"
\* Path::new(""), the path of the reset's load.
ResetPath == ""

\* File::open(path): the empty path names no file.
open(path, f) == IF path = ReferencePath THEN f ELSE None

load_json(path, f) ==
    LET opened == open(path, f)
    IN  IF IsSome(opened) THEN from_reader(Unwrap(opened)) ELSE Fail

\* OpenOptions::open with truncate(true) empties the file; write_all then writes
\* the text.  What a failed write leaves behind: nothing, or the first half.
torn(txt) == {<<>>, SubSeq(txt, 1, Len(txt) \div 2)}

---------------------------------------------------------------------------
(* The reference files found on disk at the first launch: none, a text     *)
(* that is no JSON, and the saved form of a list of 0..MaxMilestones       *)
(* milestones whose names hold the characters that JSON escapes.           *)

SeedName(i) ==
    IF i % 2 = 1 THEN <<"A", "\"", Digits[(i % 10) + 1]>>
    ELSE <<"B", "\\", Digits[(i % 10) + 1]>>

SeedTime(i) == parse_millis(i * 1000 + (i - 1) * 500)

SeedLedger(n) == [i \in 1..n |-> Milestone(SeedName(i), SeedTime(i), None)]

\* The name of the ith milestone as the file spells it.
SeedNameText(i) ==
    IF i % 2 = 1 THEN <<"\"", "A", "\\", "\"", Digits[(i % 10) + 1], "\"">>
    ELSE <<"\"", "B", "\\", "\\", Digits[(i % 10) + 1], "\"">>

SeedRecord(i) ==
    T_NAME \o SeedNameText(i) \o T_TIME \o fmt_time(SeedTime(i))
        \o T_RESULT \o T_NULL \o <<"}">>

\* The records i..n, with commas between them.
RECURSIVE SeedRecords(_, _)
SeedRecords(i, n) ==
    IF i > n THEN <<>>
    ELSE IF i = n THEN SeedRecord(i)
    ELSE SeedRecord(i) \o <<",">> \o SeedRecords(i + 1, n)

\* The text of a reference file of n milestones.
SeedFile(n) == <<"[">> \o SeedRecords(1, n) \o <<"]">>

InitialFiles ==
    {None, Some(<<"[", "{">>)} \cup {Some(SeedFile(n)) : n \in 0..MaxMilestones}

---------------------------------------------------------------------------
(* The program. *)

Ended == {"exited", "failed", "panicked"}

\* A faulty variant of the definition below: no cursor while no run is active.
cursor_when_running == IF is_started THEN Some(current_idx) ELSE None

\* let mut current_idx = 0: the cursor is a usize, it always holds an index.
cursor == Some(current_idx)

\* The state in which the operating system starts the process.
Launched ==
    /\ pc = "init"
    /\ err = ""
    /\ raw_mode = FALSE
    /\ now = 0
    /\ start_time = None
    /\ is_started = FALSE
    /\ milestones = <<>>
    /\ current_idx = 0
    /\ current_time = ZeroTime
    /\ event = ""
    /\ advances = 0

\* The producer thread as thread::spawn starts it, lines 51-54: last_tick is
\* Instant::now(), and the channel is empty.
Spawned ==
    /\ producer = [pc |-> "poll", since |-> 0]
    /\ channel = <<>>

Init ==
    /\ Launched
    /\ file \in InitialFiles
    /\ boots = 1
    /\ Spawned

\* main ends, by a return or by a panic: the process and all it held in memory
\* are gone.  What remains is how it ended, the terminal's mode and the disk.
Ends(how, why) ==
    /\ pc' = how
    /\ err' = why
    /\ now' = 0
    /\ start_time' = None
    /\ is_started' = FALSE
    /\ milestones' = <<>>
    /\ current_idx' = 0
    /\ current_time' = ZeroTime
    /\ advances' = 0

\* main, lines 42-77: the terminal, raw mode, the producer thread, the first load.
Startup ==
    /\ pc = "init"
    /\ \E terminal_ok \in BOOLEAN :
        IF ~terminal_ok
        THEN /\ Ends("failed", "terminal")
             /\ raw_mode' = raw_mode
        ELSE LET loaded == load_json(ReferencePath, file)
             IN  /\ raw_mode' = TRUE
                 /\ IF loaded.ok
                    THEN /\ milestones' = loaded.val
                         /\ pc' = "draw"
                         /\ UNCHANGED <<err, now, start_time, is_started,
                                        current_idx, current_time, advances>>
                    ELSE Ends("panicked", "load")
    /\ UNCHANGED <<event, file, boots, thread>>

\* The top of the loop, lines 80-192: sample the elapsed time, draw the frame.
Draw ==
    /\ pc = "draw"
    /\ \E draw_ok \in BOOLEAN :
        IF draw_ok
        THEN /\ current_time' = IF IsSome(start_time)
                                THEN parse_millis(elapsed(Unwrap(start_time), now))
                                ELSE ZeroTime
             /\ pc' = "recv"
             /\ UNCHANGED <<err, now, start_time, is_started, milestones,
                            current_idx, advances>>
        ELSE Ends("failed", "draw")
    /\ event' = ""
    /\ UNCHANGED <<raw_mode, file, boots, thread>>

\* rx.recv()? when the producer thread is gone: main returns the error.
RecvClosed ==
    /\ pc = "recv"
    /\ Ends("failed", "recv")
    /\ UNCHANGED <<raw_mode, event, file, boots, thread>>

\* A faulty variant of the action below: a tick restarts the measure of a run.
RecvTickRebases ==
    /\ pc = "recv"
    /\ event' = "tick"
    /\ pc' = "draw"
    /\ start_time' = IF is_started THEN Some(now) ELSE start_time
    /\ UNCHANGED <<err, raw_mode, now, is_started, milestones,
                   current_idx, current_time, file, boots, advances, thread>>

\* Event::Tick => {}
RecvTick ==
    /\ pc = "recv"
    /\ event' = "tick"
    /\ pc' = "draw"
    /\ UNCHANGED <<err, raw_mode, now, start_time, is_started, milestones,
                   current_idx, current_time, file, boots, advances, thread>>

\* KeyCode::Char('q'): disable_raw_mode()?; break.
KeyQuit ==
    /\ pc = "recv"
    /\ event' = "q"
    /\ \E disabled \in BOOLEAN :
        IF disabled
        THEN raw_mode' = FALSE /\ Ends("exited", "")
        ELSE raw_mode' = raw_mode /\ Ends("failed", "raw")
    /\ UNCHANGED <<file, boots, thread>>

\* KeyCode::Char(' '), lines 200-229: start a run, or close the milestone at the
\* cursor with the sampled time.  The vector is indexed from 0, the sequence from 1.
KeySpace ==
    /\ pc = "recv"
    /\ event' = "space"
    /\ IF ~is_started
       THEN /\ is_started' = TRUE
            /\ current_idx' = 0
            /\ start_time' = started_at(now)
            /\ advances' = 0
            /\ pc' = "draw"
            /\ UNCHANGED <<err, now, milestones, current_time>>
       ELSE IF current_idx >= Len(milestones)
       THEN Ends("panicked", "index")
       ELSE LET old_milestone == milestones[current_idx + 1]
                duration == handler_duration(current_time, old_milestone.time)
                milestone == Milestone(old_milestone.name, current_time, Some(duration))
            IN  /\ milestones' = replace(milestones, current_idx, milestone)
                /\ IF has_next(current_idx, milestones)
                   THEN /\ current_idx' = current_idx + 1
                        /\ UNCHANGED <<is_started, start_time>>
                   ELSE /\ is_started' = FALSE
                        /\ start_time' = None
                        /\ current_idx' = current_idx
                /\ advances' = advances + 1
                /\ pc' = "draw"
                /\ UNCHANGED <<err, now, current_time>>
    /\ UNCHANGED <<raw_mode, file, boots, thread>>

\* KeyCode::Char('r'), lines 230-234: load_json(Path::new("")).unwrap().
KeyReset ==
    /\ pc = "recv"
    /\ event' = "r"
    /\ LET loaded == load_json(ResetPath, file)
       IN  IF loaded.ok
           THEN /\ milestones' = loaded.val
                /\ is_started' = FALSE
                /\ start_time' = None
                /\ pc' = "draw"
                /\ UNCHANGED <<err, now, current_idx, current_time, advances>>
           ELSE Ends("panicked", "load")
    /\ UNCHANGED <<raw_mode, file, boots, thread>>

\* KeyCode::Char('s'), lines 235-239: save_json(...)? when no run is active.
KeySave ==
    /\ pc = "recv"
    /\ event' = "s"
    /\ IF ~may_save(is_started)
       THEN /\ pc' = "draw"
            /\ UNCHANGED <<err, now, start_time, is_started, milestones,
                           current_idx, current_time, advances, file>>
       ELSE LET json == to_string(milestones)
            IN  \/ /\ file' = Some(json)
                   /\ pc' = "draw"
                   /\ UNCHANGED <<err, now, start_time, is_started, milestones,
                                  current_idx, current_time, advances>>
                \/ /\ file' = file
                   /\ Ends("failed", "save")
                \/ /\ \E left \in torn(json) : file' = Some(left)
                   /\ Ends("failed", "save")
    /\ UNCHANGED <<raw_mode, boots, thread>>

\* Any other key: _ => {}
KeyOther ==
    /\ pc = "recv"
    /\ event' = "other"
    /\ pc' = "draw"
    /\ UNCHANGED <<err, raw_mode, now, start_time, is_started, milestones,
                   current_idx, current_time, file, boots, advances, thread>>

\* Time passes while main draws the frame and waits in rx.recv(), that is after
\* it took the sample; the rest of an iteration takes no time.  While no run is
\* active nothing reads the clock but the start of a run, which takes its value
\* as the origin: the clock is let stand still then.
Elapse ==
    /\ pc = "recv"
    /\ is_started
    /\ now + ClockStep <= MaxClockSteps * ClockStep
    /\ now' = now + ClockStep
    /\ UNCHANGED <<pc, err, raw_mode, start_time, is_started, milestones,
                   current_idx, current_time, event, file, boots, advances, thread>>

\* The user launches the program again, from a terminal in its normal mode; the
\* disk keeps the file.
Relaunch ==
    /\ pc \in Ended
    /\ boots < MaxBoots
    /\ boots' = boots + 1
    /\ pc' = "init"
    /\ err' = ""
    /\ raw_mode' = FALSE
    /\ now' = 0
    /\ start_time' = None
    /\ is_started' = FALSE
    /\ milestones' = <<>>
    /\ current_idx' = 0
    /\ current_time' = ZeroTime
    /\ event' = ""
    /\ advances' = 0
    /\ file' = file
    /\ UNCHANGED thread

Next ==
    \/ Startup
    \/ Draw
    \/ RecvClosed
    \/ RecvTick
    \/ KeyQuit
    \/ KeySpace
    \/ KeyReset
    \/ KeySave
    \/ KeyOther
    \/ Elapse
    \/ Relaunch

Spec == Init /\ [][Next]_vars

---------------------------------------------------------------------------
(* The clock decomposition on its own: a run that began at instant 0, seen *)
(* at the top of the loop after any time of up to MaxHours hours and a     *)
(* little more.  The process samples, draws and receives ticks.            *)

ParseInputs ==
    {hh * 3600000 + mm * 60000 + ss * 1000 + mss :
        hh \in 0..MaxHours, mm \in {0, 1, 59}, ss \in {0, 59}, mss \in {0, 999}}

InitParse ==
    /\ pc = "draw"
    /\ err = ""
    /\ raw_mode = TRUE
    /\ now \in ParseInputs
    /\ start_time = Some(0)
    /\ is_started = TRUE
    /\ milestones = SeedLedger(1)
    /\ current_idx = 0
    /\ current_time = ZeroTime
    /\ event = "tick"
    /\ file = Some(SeedFile(1))
    /\ boots = 1
    /\ advances = 0
    /\ Spawned

NextParse ==
    \/ Draw
    \/ RecvTick

SpecParse == InitParse /\ [][NextParse]_vars

---------------------------------------------------------------------------
(* The producer thread, lines 53-72, and main as the consumer of its       *)
(* channel.  producer.since is last_tick.elapsed() in ms; nothing reads it *)
(* but the comparison with tick_rate, so it stops growing at tick_rate.    *)
(* The keys the user types here are keys main ignores (_ => {}).           *)

\* The producer runs ahead of main by at most MaxQueue messages.
MaxQueue == 3

\* What event::read() returns: a key, or an event that is not a key.
Polled == {"other", "resize"}

\* A faulty variant of the action below: the tick is sent only by an iteration
\* whose poll timed out.
ProducerInputSkipsTick ==
    /\ pc \notin Ended
    /\ producer.pc = "poll"
    /\ Len(channel) < MaxQueue
    /\ \E e \in Polled :
        channel' = IF e = "resize" THEN channel ELSE Append(channel, e)
    /\ producer' = producer
    /\ UNCHANGED <<pc, err, raw_mode, now, start_time, is_started, milestones,
                   current_idx, current_time, event, file, boots, advances>>

\* Lines 60-64: event::poll(timeout) is true, the event is read, and sent on
\* when it is a key.
ProducerInput ==
    /\ pc \notin Ended
    /\ producer.pc = "poll"
    /\ Len(channel) < MaxQueue
    /\ \E e \in Polled :
        channel' = IF e = "resize" THEN channel ELSE Append(channel, e)
    /\ producer' = [producer EXCEPT !.pc = "check"]
    /\ UNCHANGED <<pc, err, raw_mode, now, start_time, is_started, milestones,
                   current_idx, current_time, event, file, boots, advances>>

\* Line 60: event::poll(timeout) is false, the timeout computed at lines 56-58
\* has run out with no event.
ProducerTimeout ==
    /\ pc \notin Ended
    /\ producer.pc = "poll"
    /\ timeout(producer.since) = 0
    /\ producer' = [producer EXCEPT !.pc = "check"]
    /\ UNCHANGED <<pc, err, raw_mode, now, start_time, is_started, milestones,
                   current_idx, current_time, event, file, boots, advances, channel>>

\* Lines 60-61: .expect("poll works"), .expect("can read events"): the thread
\* panics, and its sender is dropped.
ProducerPanic ==
    /\ pc \notin Ended
    /\ producer.pc = "poll"
    /\ producer' = [pc |-> "dead", since |-> 0]
    /\ UNCHANGED <<pc, err, raw_mode, now, start_time, is_started, milestones,
                   current_idx, current_time, event, file, boots, advances, channel>>

\* Lines 66-70: the tick, when it is due; last_tick moves when it was sent.
ProducerCheck ==
    /\ pc \notin Ended
    /\ producer.pc = "check"
    /\ Len(channel) < MaxQueue
    /\ IF tick_due(producer.since)
       THEN /\ channel' = Append(channel, "tick")
            /\ producer' = [pc |-> "poll", since |-> 0]
       ELSE /\ channel' = channel
            /\ producer' = [producer EXCEPT !.pc = "poll"]
    /\ UNCHANGED <<pc, err, raw_mode, now, start_time, is_started, milestones,
                   current_idx, current_time, event, file, boots, advances>>

\* A millisecond passes.
TimePasses ==
    /\ pc \notin Ended
    /\ producer.pc # "dead"
    /\ producer.since < tick_rate
    /\ producer' = [producer EXCEPT !.since = producer.since + 1]
    /\ UNCHANGED <<pc, err, raw_mode, now, start_time, is_started, milestones,
                   current_idx, current_time, event, file, boots, advances, channel>>

\* Line 194: rx.recv() returns the oldest message; lines 240, 242: the arms of
\* a tick and of a key main ignores.
Recv ==
    /\ pc = "recv"
    /\ channel # <<>>
    /\ event' = Head(channel)
    /\ channel' = Tail(channel)
    /\ pc' = "draw"
    /\ UNCHANGED <<err, raw_mode, now, start_time, is_started, milestones,
                   current_idx, current_time, file, boots, advances, producer>>

\* Line 194: rx.recv()? with the channel empty and the sender dropped.
RecvHangup ==
    /\ pc = "recv"
    /\ channel = <<>>
    /\ producer.pc = "dead"
    /\ Ends("failed", "recv")
    /\ UNCHANGED <<raw_mode, event, file, boots, thread>>

\* main past its startup with a list of one milestone, no run active.
InitProducer ==
    /\ pc = "draw"
    /\ err = ""
    /\ raw_mode = TRUE
    /\ now = 0
    /\ start_time = None
    /\ is_started = FALSE
    /\ milestones = SeedLedger(1)
    /\ current_idx = 0
    /\ current_time = ZeroTime
    /\ event = ""
    /\ file = Some(SeedFile(1))
    /\ boots = 1
    /\ advances = 0
    /\ Spawned

NextProducer ==
    \/ ProducerInput
    \/ ProducerTimeout
    \/ ProducerPanic
    \/ ProducerCheck
    \/ TimePasses
    \/ Draw
    \/ Recv
    \/ RecvHangup

\* The scheduler runs both threads and the clock moves: a poll returns, with an
\* event or at its timeout; the rest of an iteration is run; main draws and
\* receives.  Nothing obliges the user to type or a call to fail.
FairProducer ==
    /\ WF_vars(ProducerInput \/ ProducerTimeout)
    /\ WF_vars(ProducerCheck)
    /\ WF_vars(TimePasses)
    /\ WF_vars(Draw)
    /\ WF_vars(Recv)
    /\ WF_vars(RecvHangup)

SpecProducer == InitProducer /\ [][NextProducer]_vars /\ FairProducer

---------------------------------------------------------------------------
(* The claims. *)

Alive == pc \in {"draw", "recv"}

\* to_seconds(h, m, s, ms) = h*3600 + m*60 + s + ms/1000, in thousandths.
to_seconds(t) == (t.h * 3600 + t.m * 60 + t.s) * 1000 + t.ms

\* The ledger and the run state.
ledger == <<milestones, current_idx, is_started, start_time>>

\* C1: with N > 0 milestones, a Start makes the run active with the cursor at 0;
\* each of the next N-1 Advances leaves the run active and moves the cursor by
\* exactly one; the Nth Advance ends the run (flag false, start instant cleared);
\* the flag does not fall before the Nth Advance, whatever Ticks come between.
C1_Step ==
    /\ (KeySpace /\ Len(milestones) > 0 /\ ~is_started) =>
           is_started' /\ current_idx' = 0 /\ advances' = 0 /\ IsSome(start_time')
    /\ (KeySpace /\ Len(milestones) > 0 /\ is_started) =>
           /\ advances' = advances + 1
           /\ milestones' # <<>>
           /\ IF advances' < Len(milestones)
              THEN is_started' /\ current_idx' = current_idx + 1
                   /\ start_time' = start_time
              ELSE advances' = Len(milestones) /\ ~is_started' /\ start_time' = None
    /\ (is_started /\ ~is_started' /\ pc' \notin Ended) =>
           KeySpace /\ advances' = Len(milestones)
    /\ (is_started' /\ Len(milestones') > 0) =>
           current_idx' = advances' /\ advances' < Len(milestones')

C1_RunEndsOnNthAdvance == [][C1_Step]_vars

\* A list of two or more milestones, just after the Advance that ended the run.
C1_Witness ==
    /\ pc = "draw"
    /\ event = "space"
    /\ ~is_started
    /\ Len(milestones) >= 2
    /\ advances = Len(milestones)

\* C2: on every Advance during a run, the delta stored in the milestone at the
\* cursor is to_seconds(measured) - to_seconds(old reference time).
C2_Step ==
    (KeySpace /\ is_started /\ pc' = "draw") =>
        LET i == current_idx + 1
        IN  milestones'[i].result =
                Some(to_seconds(milestones'[i].time) - to_seconds(milestones[i].time))

C2_DeltaIsDifferenceOfSeconds == [][C2_Step]_vars

\* C3: a Reset received while a run is active is rejected: the ledger and the
\* run state are unchanged and the process keeps running.
C3_Step == (KeyReset /\ is_started) => (UNCHANGED ledger /\ pc' \notin Ended)

C3_ResetWhileRunningRejected == [][C3_Step]_vars

\* C4: a SaveReference received while a run is active writes no file and changes
\* nothing in memory; the file changes only in a SaveReference handled while no
\* run is active.
C4_Step ==
    /\ (KeySave /\ is_started) => (UNCHANGED <<file, ledger>> /\ pc' = "draw")
    /\ (file' # file) => (KeySave /\ ~is_started)

C4_SaveOnlyWhenIdle == [][C4_Step]_vars

\* A save was rejected during a run whose ledger differs from the file.
C4_Witness ==
    /\ pc = "draw"
    /\ event = "s"
    /\ is_started
    /\ advances > 0
    /\ file # Some(to_string(milestones))

\* C5: with an empty milestone list a Start makes the run active, and every
\* Advance that follows is a no-op: ledger and run state unchanged, no crash.
C5_Step ==
    /\ (KeySpace /\ Len(milestones) = 0 /\ ~is_started /\ Alive) => is_started'
    /\ (KeySpace /\ Len(milestones) = 0 /\ is_started) =>
           (UNCHANGED ledger /\ pc' \notin Ended)

C5_AdvanceOnEmptyListIsNoOp == [][C5_Step]_vars

\* C6: for every millisecond count t >= 0, parse_millis(t) is
\* (floor(t/3600000) mod 24, floor(t/60000) mod 60, floor(t/1000) mod 60, t mod 1000),
\* so that 0 <= h < 24, 0 <= m < 60, 0 <= s < 60, 0 <= ms < 1000.
C6_ParseMillis ==
    (pc = "recv" /\ IsSome(start_time)) =>
        LET t == now - Unwrap(start_time)
        IN  /\ current_time.h = (t \div 3600000) % 24
            /\ current_time.m = (t \div 60000) % 60
            /\ current_time.s = (t \div 1000) % 60
            /\ current_time.ms = t % 1000
            /\ current_time.h \in 0..23
            /\ current_time.m \in 0..59
            /\ current_time.s \in 0..59
            /\ current_time.ms \in 0..999

\* A sample taken more than two days into a run, no part of it zero.
C6_Witness ==
    /\ pc = "recv"
    /\ now - Unwrap(start_time) > 48 * 3600000
    /\ current_time = Time(1, 59, 59, 999)

\* C7: after an accepted SaveReference, loading the file gives a list of the same
\* length and order as the list in memory at the save, with the same name and
\* the same reference time in every milestone.
same_names_and_times(a, b) ==
    /\ Len(a) = Len(b)
    /\ \A i \in 1..Len(a) : a[i].name = b[i].name /\ a[i].time = b[i].time

C7_Step ==
    (KeySave /\ ~is_started /\ pc' = "draw") =>
        /\ load_json(ReferencePath, file').ok
        /\ same_names_and_times(load_json(ReferencePath, file').val, milestones)

C7_SaveLoadRoundTrip == [][C7_Step]_vars

\* The second launch has loaded, at startup, the list the first one saved after a
\* run: its names hold escaped characters, its times are the measured ones.
C7_Witness ==
    /\ boots = 2
    /\ pc = "draw"
    /\ event = ""
    /\ Len(milestones) >= 2
    /\ IsSome(milestones[1].result)
    /\ milestones[1].name = SeedName(1)
    /\ milestones[2].time # SeedTime(2)
    /\ file = Some(to_string(milestones))

\* C8: a Reset received while no run is active reloads the ledger from the
\* reference file: the list is the file's records with the deltas cleared, the
\* machine is Idle, the process keeps running.
cleared(ms) == [i \in 1..Len(ms) |-> Milestone(ms[i].name, ms[i].time, None)]

C8_Step ==
    (KeyReset /\ ~is_started /\ load_json(ReferencePath, file).ok) =>
        /\ pc' \notin Ended
        /\ ~is_started'
        /\ milestones' = cleared(load_json(ReferencePath, file).val)

C8_ResetReloadsReference == [][C8_Step]_vars

\* C9: whenever main has returned, raw mode is disabled.
C9_RawModeOffOnReturn == (pc \in {"exited", "failed"}) => ~raw_mode

\* C10: a failure to load or to save the file never ends the process.
C10_PersistenceFailureNotFatal == (err \in {"load", "save"}) => pc \notin Ended

\* C11: in every state in which a run is active, the cursor is a valid index
\* into the milestone list: 0 <= cursor < len(milestones).
C11_CursorInBoundsWhileRunning ==
    is_started => (0 <= current_idx /\ current_idx < Len(milestones))

\* C12: deltas are revealed left to right within the current run.  While a run
\* is active, no milestone at or after the cursor holds a delta; at the moment
\* a run starts (the state a Start leaves) and right after a load (the state
\* the startup leaves, the only one drawn before any event) every delta is null.
no_result(ms, from) == \A i \in from..Len(ms) : ms[i].result = None

C12_DeltasRevealedLeftToRight ==
    /\ (Alive /\ is_started) => no_result(milestones, current_idx + 1)
    /\ (pc = "draw" /\ event = "") => no_result(milestones, 1)

\* C13: an Advance during a run changes only the reference time and the delta
\* of the milestone at the cursor: the length and the order of the list, the
\* name of the milestone at the cursor and every field of every other milestone
\* are unchanged; afterwards the cursor has advanced by exactly one, the run
\* still active, or the run has ended.
C13_Step ==
    (pc = "recv" /\ event' = "space" /\ is_started) =>
        /\ Len(milestones') = Len(milestones)
        /\ \A i \in 1..Len(milestones) :
            /\ milestones'[i].name = milestones[i].name
            /\ (i # current_idx + 1) => milestones'[i] = milestones[i]
        /\ \/ is_started' /\ current_idx' = current_idx + 1
           \/ ~is_started'

C13_AdvanceTouchesOnlyCursor == [][C13_Step]_vars

\* The second milestone of a run has been passed: the first keeps what the
\* first Advance gave it.
C13_Witness ==
    /\ pc = "draw"
    /\ event = "space"
    /\ ~is_started
    /\ advances = 2
    /\ current_idx = 1
    /\ milestones[1].name # milestones[2].name
    /\ IsSome(milestones[1].result)
    /\ IsSome(milestones[2].result)

\* C14: a Tick, in any state, changes nothing but the displayed elapsed time:
\* the milestone list, the cursor, the run flag, the start instant and the file
\* are the same after the Tick is received, and after the frame that follows it
\* is drawn, as before.
C14_Step ==
    \/ pc = "recv" /\ event' = "tick"
    \/ pc = "draw" /\ event = "tick" /\ pc' = "recv"

C14_TickChangesOnlyDisplay ==
    [][C14_Step => UNCHANGED <<ledger, file>>]_vars

\* A Tick received during a run, after time has passed since its start.
C14_Witness ==
    /\ pc = "draw"
    /\ event = "tick"
    /\ is_started
    /\ now > Unwrap(start_time)

\* C15: the time an Advance records into a milestone is the elapsed time
\* between the run's start instant and the instant at which the Advance is
\* processed, not an elapsed time sampled at an earlier event.
C15_Step ==
    (pc = "recv" /\ event' = "space" /\ is_started /\ pc' = "draw") =>
        milestones'[current_idx + 1].time = parse_millis(now - Unwrap(start_time))

C15_AdvanceRecordsTimeAtProcessing == [][C15_Step]_vars

\* C16: passing the same milestone in two successive runs overwrites: after the
\* second run's Advance on a milestone its reference time is the second run's
\* measured time, and its delta is that time minus the reference the first run
\* wrote, in seconds, whatever the first run's delta was.
C16_Step ==
    (/\ pc = "recv" /\ event' = "space" /\ is_started /\ pc' = "draw"
     /\ IsSome(milestones[current_idx + 1].result)) =>
        /\ milestones'[current_idx + 1].time = current_time
        /\ milestones'[current_idx + 1].result =
               Some(to_seconds(current_time) - to_seconds(milestones[current_idx + 1].time))

C16_SecondRunOverwrites == [][C16_Step]_vars

\* C17: input cannot starve the producer thread of ticks.  An iteration of the
\* producer that finds at least the tick interval elapsed since the last Tick
\* it sent sends a Tick, after the key it read, and starts the interval anew;
\* so, as long as main is receiving, Ticks keep arriving, and a receive main
\* blocks in always eventually returns.
C17_Step ==
    (producer.pc = "check" /\ producer'.pc = "poll" /\ producer.since >= tick_rate) =>
        /\ channel' = Append(channel, "tick")
        /\ producer'.since = 0

C17_TicksKeepArriving == []<>(pc \in Ended \/ event = "tick")

C17_ReceiveReturns == (pc = "recv") ~> (pc # "recv")

C17_InputCannotStarveTicks ==
    /\ [][C17_Step]_vars
    /\ C17_TicksKeepArriving
    /\ C17_ReceiveReturns

\* main has received a Tick that the producer sent between two keys: one key
\* was received before it, the next is still in the channel.
C17_Witness ==
    /\ pc = "draw"
    /\ event = "tick"
    /\ channel # <<>>
    /\ Head(channel) = "other"
    /\ producer.pc = "check"

C19_FlagAndStartInstantAgree == (pc = "draw") => (is_started <=> IsSome(start_time))

\* The top of the loop after the Start of a second run: the first was started,
\* advanced and finished.
C19_Witness ==
    /\ pc = "draw"
    /\ event = "space"
    /\ is_started
    /\ IsSome(start_time)
    /\ advances = 0
    /\ Len(milestones) >= 1
    /\ IsSome(milestones[1].result)

\* C20: whenever no run is active the displayed elapsed time is 00:00:00.000,
\* also in the first frame drawn after the Advance that finishes a run; during
\* a run each frame shows the time elapsed since the start instant, sampled at
\* the top of that iteration of the loop.
C20_Step ==
    (pc = "draw" /\ pc' = "recv") =>
        current_time' = IF is_started THEN parse_millis(now - Unwrap(start_time))
                        ELSE ZeroTime

C20_DisplayedTime ==
    /\ [][C20_Step]_vars
    /\ []((pc = "recv" /\ ~is_started) => current_time = ZeroTime)

\* The frame drawn after a run finished with a measured time other than zero.
C20_Witness ==
    /\ pc = "recv"
    /\ ~is_started
    /\ advances >= 1
    /\ milestones[Len(milestones)].time # ZeroTime
    /\ IsSome(milestones[Len(milestones)].result)
    /\ current_time = ZeroTime

=============================================================================
